---- MODULE Spec2Model ----
(***************************************************************************)
(* Model of examples/legacy_download.py: the script that, when an episode  *)
(* starts playing, unmonitors the watched episode in Sonarr, marks the     *)
(* next EPISODE_BUFFER episodes wanted, searches for them and switches the *)
(* series to future monitoring; for a movie it unmonitors the movie in     *)
(* Radarr.  One behaviour of the model is one run of the script.  Every    *)
(* request the script sends is appended to `calls` with its outcome.       *)
(***************************************************************************)
EXTENDS Integers, Sequences, FiniteSets

\* ---------------------------------------------------------------- bounds
MaxCatalog == 3     \* longest episode list Sonarr answers with
MaxBuffer == 2      \* largest EPISODE_BUFFER setting explored
MaxFailures == 1    \* most failing monitor/search requests in one run

\* Season and episode numbers of the catalog entries; the -sn argument also
\* ranges over one season the catalog does not hold.
CatalogSeasons == {1}
CatalogEpisodes == {1, 2}
ArgSeasons == {1, 2}

\* ------------------------------------------------------- Python values
\* None, as returned by a function that falls off its end (e.g. line 45).
None == -1
\* The '' default of an argparse option that was not given (lines 191-196).
EmptyArg == -1
\* A list-or-None value: <<>> is None, <<l>> is the list l.
NoList == <<>>
SomeList(l) == <<l>>
IsNone(x) == x = <<>>
ListOf(x) == x[1]

VARIABLES
    settings,       \* lines 22-30, the "EDIT THESE SETTINGS" block
    p,              \* line 198, the parsed arguments
    pc,             \* position of the run in __main__
    exit_code,      \* process exit status, None while running
    calls,          \* requests sent so far, in order, with their outcome
    tvdb_id,        \* line 209
    series_id,      \* line 210
    movie_id,       \* line 228
    episodes,       \* line 211, list-or-None
    i,              \* get_next_episodes: index of the for loop (line 62)
    nextEpisodes,   \* get_next_episodes: local list (line 60)
    foundCurEpisode,\* get_next_episodes: local flag (line 61)
    mainNextEpisodes,\* line 212: value returned to __main__, list-or-None
    k,              \* index of the for loop of line 214
    prev,           \* earlier runs of legacy_download.py: arguments, catalog, requests
    script,         \* the script this invocation runs
    argv,           \* sys.argv[1:] of an event script
    environ,        \* os.environ of an event script (the JellyPy variables)
    epc,            \* position of an event script in its main()
    mode,           \* test_execution_mode.py: value of detect_execution_mode()
    event_data,     \* basic_notification.py: self.event_data
    handler,        \* basic_notification.py: the handler handle_event called
    status,         \* exit status of an event script, None while running
    section,        \* test_execution_mode.py: the mode section written to the log
    attempts,       \* notification channels tried so far, with their outcome
    reaction        \* basic_notification.py: the item-type handler called

\* The variables of the event scripts, which a run of legacy_download.py
\* does not touch.
eventVars == <<script, argv, environ, epc, mode, event_data, handler, status,
               section, attempts, reaction>>

\* The variables of a run of legacy_download.py.
plannerVars == <<settings, p, pc, exit_code, calls, tvdb_id, series_id,
                 movie_id, episodes, i, nextEpisodes, foundCurEpisode,
                 mainNextEpisodes, k>>

vars == <<plannerVars, prev, eventVars>>

SONARR_APIKEY == settings.SONARR_APIKEY
RADARR_APIKEY == settings.RADARR_APIKEY
EPISODE_BUFFER == settings.EPISODE_BUFFER
SET_WANTED == settings.SET_WANTED
AUTO_SEARCH == settings.AUTO_SEARCH
MONITOR_FUTURE_EPISODES == settings.MONITOR_FUTURE_EPISODES

Settings ==
    [SONARR_APIKEY : BOOLEAN, RADARR_APIKEY : BOOLEAN,
     EPISODE_BUFFER : 0..MaxBuffer,
     SET_WANTED : BOOLEAN, AUTO_SEARCH : BOOLEAN,
     MONITOR_FUTURE_EPISODES : BOOLEAN]

Args ==
    [media_title : {"", "title"},
     season_number : {EmptyArg} \cup ArgSeasons,
     episode_number : {EmptyArg} \cup CatalogEpisodes]

\* ------------------------------------------------------------ catalog
\* One entry of the /api/v3/episode answer, with the fields the script reads.
MkEpisode(n, key, file) ==
    [id |-> n, seasonNumber |-> key[1], episodeNumber |-> key[2], hasFile |-> file]

EpisodeKeys == CatalogSeasons \X CatalogEpisodes

KeyLeq(a, b) == a[1] < b[1] \/ (a[1] = b[1] /\ a[2] <= b[2])

\* Sonarr lists a series' episodes by (season, episode) ascending; the ids
\* are distinct (the position stands for the id).  Two entries may carry the
\* same numbers.
CatalogsOfLen(n) ==
    { [j \in 1..n |-> MkEpisode(j, f[j][1], f[j][2])] :
        f \in { g \in [1..n -> EpisodeKeys \X BOOLEAN] :
                  \A j \in 1..n : j < n => KeyLeq(g[j][1], g[j + 1][1]) } }

Catalogs == UNION { CatalogsOfLen(n) : n \in 0..MaxCatalog }

\* ------------------------------------------------------------ requests
Call(op, id, wanted, ok) == [op |-> op, id |-> id, wanted |-> wanted, ok |-> ok]

MutationOps == {"set_wanted", "search_episode", "monitor_future_episodes",
                "set_movie_wanted"}

NumFailed(log) ==
    Cardinality({ j \in DOMAIN log : log[j].op \in MutationOps /\ ~log[j].ok })

\* The outcomes a monitor/search request may have in this run.
Outcomes == IF NumFailed(calls) < MaxFailures THEN {TRUE, FALSE} ELSE {TRUE}

\* ---------------------------------------------------------------- Init
Init ==
    /\ settings \in Settings
    /\ p \in Args
    /\ pc = "start"
    /\ exit_code = None
    /\ calls = <<>>
    /\ tvdb_id = None
    /\ series_id = None
    /\ movie_id = None
    /\ episodes = NoList
    /\ i = 1
    /\ nextEpisodes = <<>>
    /\ foundCurEpisode = FALSE
    /\ mainNextEpisodes = NoList
    /\ k = 1
    /\ prev = <<>>
    /\ script = "legacy_download"
    /\ argv = <<>>
    /\ environ = <<>>
    /\ epc = "idle"
    /\ mode = ""
    /\ event_data = <<>>
    /\ handler = ""
    /\ status = None
    /\ section = ""
    /\ attempts = <<>>
    /\ reaction = ""

\* ------------------------------------------------------------ __main__
\* Faulty variant of MissingKey: each path tests the other service's key.
MissingKeySwapped(args) ==
    IF args.season_number # EmptyArg THEN ~RADARR_APIKEY ELSE ~SONARR_APIKEY

\* Lines 206 and 225: the key whose absence stops the run.
MissingKey(args) ==
    IF args.season_number # EmptyArg THEN ~SONARR_APIKEY ELSE ~RADARR_APIKEY

\* Lines 200-208, 224-227, 235-236: dispatch on the arguments.
Dispatch ==
    /\ pc = "start"
    /\ IF p.media_title = ""
         THEN /\ pc' = "done"
              /\ exit_code' = 0
         ELSE IF MissingKey(p)
           THEN /\ pc' = "exited"
                /\ exit_code' = 1
           ELSE /\ pc' = IF p.season_number # EmptyArg
                           THEN "get_tvdb_id" ELSE "get_movie_id"
                /\ exit_code' = exit_code
    /\ UNCHANGED <<prev, eventVars>>
    /\ UNCHANGED <<settings, p, calls, tvdb_id, series_id, movie_id, episodes,
                   i, nextEpisodes, foundCurEpisode, mainNextEpisodes, k>>

\* Line 209 and get_tvdb_id (141-153): the id of the first result, or None
\* when the request fails or the result list is empty.
GetTvdbId ==
    /\ pc = "get_tvdb_id"
    /\ \E r \in {None, 1} :
         /\ tvdb_id' = r
         /\ calls' = Append(calls, Call("get_tvdb_id", None, FALSE, r # None))
    /\ pc' = "get_series_id"
    /\ UNCHANGED <<prev, eventVars>>
    /\ UNCHANGED <<settings, p, exit_code, series_id, movie_id, episodes,
                   i, nextEpisodes, foundCurEpisode, mainNextEpisodes, k>>

\* Line 210 and get_series_id (32-45): called with whatever line 209 gave.
GetSeriesId ==
    /\ pc = "get_series_id"
    /\ \E r \in {None, 1} :
         /\ series_id' = r
         /\ calls' = Append(calls, Call("get_series_id", tvdb_id, FALSE, r # None))
    /\ pc' = "get_episodes"
    /\ UNCHANGED <<prev, eventVars>>
    /\ UNCHANGED <<settings, p, exit_code, tvdb_id, movie_id, episodes,
                   i, nextEpisodes, foundCurEpisode, mainNextEpisodes, k>>

\* Faulty variant of ServedCatalogs: the catalog changes between two runs,
\* every file is gone when the second run fetches it.
ServedCatalogsChanging ==
    IF prev = <<>> THEN Catalogs
    ELSE { [j \in DOMAIN prev[1].catalog |->
              [prev[1].catalog[j] EXCEPT !.hasFile = FALSE]] }

\* The answers /api/v3/episode can give (line 51-53).  The script only
\* reads the catalog; its requests change monitored flags and start
\* searches, never the entries' numbers, ids or hasFile.  A later run for
\* the same series is therefore served the catalog of the earlier run.
ServedCatalogs == IF prev = <<>> THEN Catalogs ELSE {prev[1].catalog}

\* Line 211 and get_episodes (47-57): the decoded answer, or None.
GetEpisodes ==
    /\ pc = "get_episodes"
    /\ \E r \in {NoList} \cup { SomeList(c) : c \in ServedCatalogs } :
         /\ episodes' = r
         /\ calls' = Append(calls, Call("get_episodes", series_id, FALSE, ~IsNone(r)))
    /\ pc' = "get_next_episodes"
    /\ UNCHANGED <<prev, eventVars>>
    /\ UNCHANGED <<settings, p, exit_code, tvdb_id, series_id, movie_id,
                   i, nextEpisodes, foundCurEpisode, mainNextEpisodes, k>>

\* ---------------------------------------------------- get_next_episodes
\* Faulty variant of IsCurEpisode: the episode number is not compared.
IsCurEpisodeBySeason(episode, season_number, episode_number) ==
    episode.seasonNumber = season_number

\* Line 67: the entry carries the watched season and episode numbers.
IsCurEpisode(episode, season_number, episode_number) ==
    /\ episode.seasonNumber = season_number
    /\ episode.episodeNumber = episode_number

\* Line 67 evaluates int(episode_number) only when the season matches;
\* int('') raises ValueError, which nothing catches.
CompareRaises(episode, season_number, episode_number) ==
    /\ episode.seasonNumber = season_number
    /\ episode_number = EmptyArg

\* Faulty variant of BufferFull: > instead of >=.
BufferFullOffByOne(next) == Len(next) > EPISODE_BUFFER

\* Line 65: the list holds EPISODE_BUFFER entries.
BufferFull(next) == Len(next) >= EPISODE_BUFFER

\* One pass of the for loop of lines 62-70, or its end.  `for episode in
\* None` raises TypeError (episodes is None when get_episodes failed); when
\* the loop ends without the return of line 66 the function returns None.
GetNextEpisodes ==
    /\ pc = "get_next_episodes"
    /\ IF IsNone(episodes)
         THEN /\ pc' = "crashed"
              /\ exit_code' = 1
              /\ UNCHANGED <<calls, i, nextEpisodes, foundCurEpisode,
                             mainNextEpisodes>>
         ELSE IF i > Len(ListOf(episodes))
           THEN /\ mainNextEpisodes' = NoList
                /\ pc' = "apply"
                /\ UNCHANGED <<exit_code, calls, i, nextEpisodes, foundCurEpisode>>
           ELSE LET episode == ListOf(episodes)[i]
                    next == IF foundCurEpisode
                              THEN Append(nextEpisodes, episode)
                              ELSE nextEpisodes
                IN  /\ nextEpisodes' = next
                    /\ IF BufferFull(next)
                         THEN /\ mainNextEpisodes' = SomeList(next)
                              /\ pc' = "apply"
                              /\ UNCHANGED <<exit_code, calls, i, foundCurEpisode>>
                         ELSE IF CompareRaises(episode, p.season_number,
                                               p.episode_number)
                           THEN /\ pc' = "crashed"
                                /\ exit_code' = 1
                                /\ UNCHANGED <<calls, i, foundCurEpisode,
                                               mainNextEpisodes>>
                           ELSE IF IsCurEpisode(episode, p.season_number,
                                                p.episode_number)
                             THEN /\ foundCurEpisode' = TRUE
                                  /\ \E ok \in Outcomes :
                                       calls' = Append(calls,
                                          Call("set_wanted", episode.id, FALSE, ok))
                                  /\ i' = i + 1
                                  /\ UNCHANGED <<pc, exit_code, mainNextEpisodes>>
                             ELSE /\ i' = i + 1
                                  /\ UNCHANGED <<pc, exit_code, calls,
                                                 foundCurEpisode, mainNextEpisodes>>
    /\ UNCHANGED <<prev, eventVars>>
    /\ UNCHANGED <<settings, p, tvdb_id, series_id, movie_id, episodes, k>>

\* ------------------------------------------------- __main__, lines 213-223
\* Faulty variant of EpisodeCalls: a failed set_wanted skips the search.
EpisodeCallsStopOnFailure(episode, okWanted, okSearch) ==
    IF episode.hasFile THEN <<>>
    ELSE (IF SET_WANTED
            THEN <<Call("set_wanted", episode.id, TRUE, okWanted)>> ELSE <<>>)
         \o (IF AUTO_SEARCH /\ (okWanted \/ ~SET_WANTED)
               THEN <<Call("search_episode", episode.id, FALSE, okSearch)>>
               ELSE <<>>)

\* Faulty variant of EpisodeCalls: the search is requested before the
\* entry is marked wanted.
EpisodeCallsSearchFirst(episode, okWanted, okSearch) ==
    IF episode.hasFile THEN <<>>
    ELSE (IF AUTO_SEARCH
            THEN <<Call("search_episode", episode.id, FALSE, okSearch)>>
            ELSE <<>>)
         \o (IF SET_WANTED
               THEN <<Call("set_wanted", episode.id, TRUE, okWanted)>> ELSE <<>>)

\* Lines 215-220: the requests sent for one entry of the returned list; a
\* failing request is caught inside set_wanted / search_episode (81-83,
\* 92-94) and the loop goes on.
EpisodeCalls(episode, okWanted, okSearch) ==
    IF episode.hasFile THEN <<>>
    ELSE (IF SET_WANTED
            THEN <<Call("set_wanted", episode.id, TRUE, okWanted)>> ELSE <<>>)
         \o (IF AUTO_SEARCH
               THEN <<Call("search_episode", episode.id, FALSE, okSearch)>>
               ELSE <<>>)

\* One pass of the for loop of lines 214-220, or its end (also line 213).
ApplyWindow ==
    /\ pc = "apply"
    /\ IF IsNone(mainNextEpisodes) \/ k > Len(ListOf(mainNextEpisodes))
         THEN /\ pc' = "monitor_future"
              /\ UNCHANGED <<calls, k>>
         ELSE /\ \E okWanted, okSearch \in BOOLEAN :
                   LET new == EpisodeCalls(ListOf(mainNextEpisodes)[k],
                                           okWanted, okSearch)
                   IN  /\ NumFailed(calls \o new) <= MaxFailures
                       /\ calls' = calls \o new
              /\ k' = k + 1
              /\ pc' = pc
    /\ UNCHANGED <<prev, eventVars>>
    /\ UNCHANGED <<settings, p, exit_code, tvdb_id, series_id, movie_id, episodes,
                   i, nextEpisodes, foundCurEpisode, mainNextEpisodes>>

\* Faulty variant of MonitorFutureDue: the None case is left out.
MonitorFutureDueOnShortListOnly(next) ==
    MONITOR_FUTURE_EPISODES /\ ~IsNone(next) /\ Len(ListOf(next)) < EPISODE_BUFFER

\* Line 221: the condition under which the series is switched to future
\* monitoring.
MonitorFutureDue(next) ==
    MONITOR_FUTURE_EPISODES
    /\ (IsNone(next) \/ Len(ListOf(next)) < EPISODE_BUFFER)

\* Lines 221-223.
MonitorFuture ==
    /\ pc = "monitor_future"
    /\ IF MonitorFutureDue(mainNextEpisodes)
         THEN \E ok \in Outcomes :
                calls' = Append(calls,
                   Call("monitor_future_episodes", series_id, FALSE, ok))
         ELSE calls' = calls
    /\ pc' = "done"
    /\ exit_code' = 0
    /\ UNCHANGED <<prev, eventVars>>
    /\ UNCHANGED <<settings, p, tvdb_id, series_id, movie_id, episodes,
                   i, nextEpisodes, foundCurEpisode, mainNextEpisodes, k>>

\* ------------------------------------------------------------- movies
\* Line 228 and get_movie_id (174-184).
GetMovieId ==
    /\ pc = "get_movie_id"
    /\ \E r \in {None, 1} :
         /\ movie_id' = r
         /\ calls' = Append(calls, Call("get_movie_id", None, FALSE, r # None))
    /\ pc' = "set_movie_wanted"
    /\ UNCHANGED <<prev, eventVars>>
    /\ UNCHANGED <<settings, p, exit_code, tvdb_id, series_id, episodes,
                   i, nextEpisodes, foundCurEpisode, mainNextEpisodes, k>>

\* Faulty variant of MovieCall: the movie is marked monitored.
MovieCallWanted(movieID, ok) == Call("set_movie_wanted", movieID, TRUE, ok)

\* Line 229: set_movie_wanted(movie_id, False).
MovieCall(movieID, ok) == Call("set_movie_wanted", movieID, FALSE, ok)

\* Lines 229-230 and set_movie_wanted (162-172).
SetMovieWanted ==
    /\ pc = "set_movie_wanted"
    /\ \E ok \in Outcomes :
         calls' = Append(calls, MovieCall(movie_id, ok))
    /\ pc' = "done"
    /\ exit_code' = 0
    /\ UNCHANGED <<prev, eventVars>>
    /\ UNCHANGED <<settings, p, tvdb_id, series_id, movie_id, episodes,
                   i, nextEpisodes, foundCurEpisode, mainNextEpisodes, k>>

Next ==
    \/ Dispatch
    \/ GetTvdbId
    \/ GetSeriesId
    \/ GetEpisodes
    \/ GetNextEpisodes
    \/ ApplyWindow
    \/ MonitorFuture
    \/ GetMovieId
    \/ SetMovieWanted

Spec == Init /\ [][Next]_vars

\* ------------------------------------------------------------------
\* Vocabulary of the properties below.

\* The run handles an episode event (title and season number given).
OnEpisodePath == p.media_title # "" /\ p.season_number # EmptyArg

\* The catalog fetch of line 211 answered with a list.
Fetched == ~IsNone(episodes)
Catalog == ListOf(episodes)

\* Catalog positions whose numbers are the event's season and episode.
MatchPositions ==
    { j \in 1..Len(Catalog) :
        /\ Catalog[j].seasonNumber = p.season_number
        /\ Catalog[j].episodeNumber = p.episode_number }

WatchedFound == Fetched /\ p.episode_number # EmptyArg /\ MatchPositions # {}
WatchedAbsent == Fetched /\ p.episode_number # EmptyArg /\ MatchPositions = {}

\* Position of the watched episode: the first matching entry.
WatchedPos == CHOOSE j \in MatchPositions : \A m \in MatchPositions : j <= m

\* Number of catalog entries after the watched one.
Remaining == Len(Catalog) - WatchedPos

\* get_next_episodes has returned to __main__.
ScanReturned == pc \in {"apply", "monitor_future", "done"}

Issued(op, id, wanted) ==
    \E j \in DOMAIN calls :
        calls[j].op = op /\ calls[j].id = id /\ calls[j].wanted = wanted

Times(op, id, wanted) ==
    Cardinality({ j \in DOMAIN calls :
        calls[j].op = op /\ calls[j].id = id /\ calls[j].wanted = wanted })

\* calls[j] marks an episode wanted or searches for it.
IsWindowMutation(j) ==
    \/ calls[j].op = "search_episode"
    \/ calls[j].op = "set_wanted" /\ calls[j].wanted

\* Every entry of list w without a file has received the requests the
\* settings ask for.
DueCallsIssued(w) ==
    \A m \in 1..Len(w) :
        ~w[m].hasFile =>
            /\ SET_WANTED => Issued("set_wanted", w[m].id, TRUE)
            /\ AUTO_SEARCH => Issued("search_episode", w[m].id, FALSE)

MonitorFutureTimes ==
    Cardinality({ j \in DOMAIN calls : calls[j].op = "monitor_future_episodes" })

\* ------------------------------------------------------------------
\* C1: when the watched episode is found and k entries follow it with
\* 1 <= k < EPISODE_BUFFER, the run's window is exactly those k entries and
\* each of them without a file is marked wanted (SET_WANTED) and searched
\* for (AUTO_SEARCH).
C1_ShortWindowApplied ==
    (pc = "done" /\ WatchedFound /\ Remaining >= 1 /\ Remaining < EPISODE_BUFFER)
    => /\ mainNextEpisodes =
            SomeList(SubSeq(Catalog, WatchedPos + 1, Len(Catalog)))
       /\ DueCallsIssued(SubSeq(Catalog, WatchedPos + 1, Len(Catalog)))

\* C2: when the watched episode is found at position i and at least
\* EPISODE_BUFFER entries follow it, the returned window is exactly the
\* entries at positions i+1 .. i+EPISODE_BUFFER, and no wanted/search
\* request is ever sent for an entry outside those positions.
C2_FullWindowExact ==
    (WatchedFound /\ Remaining >= EPISODE_BUFFER)
    => /\ ScanReturned =>
            mainNextEpisodes =
              SomeList(SubSeq(Catalog, WatchedPos + 1, WatchedPos + EPISODE_BUFFER))
       /\ \A j \in DOMAIN calls :
            IsWindowMutation(j) =>
              \E m \in (WatchedPos + 1)..(WatchedPos + EPISODE_BUFFER) :
                 Catalog[m].id = calls[j].id

\* A finished run whose window is full, with a catalog entry beyond the
\* window, and in which the first window entry was marked wanted.
C2_Witness ==
    /\ pc = "done"
    /\ WatchedFound
    /\ EPISODE_BUFFER >= 1
    /\ Remaining > EPISODE_BUFFER
    /\ Issued("set_wanted", Catalog[WatchedPos + 1].id, TRUE)

\* Length of the window the planner is specified to collect.
WindowLength ==
    IF WatchedFound
      THEN (IF Remaining < EPISODE_BUFFER THEN Remaining ELSE EPISODE_BUFFER)
      ELSE 0

\* C3: in every episode run (season and episode number given) that got
\* past the catalog fetch, monitor_future_episodes is sent exactly once if
\* MONITOR_FUTURE_EPISODES is set and the window is strictly shorter than
\* EPISODE_BUFFER, and not at all otherwise.
C3_FutureIffShortWindow ==
    (pc = "done" /\ OnEpisodePath /\ Fetched /\ p.episode_number # EmptyArg)
    => MonitorFutureTimes =
         (IF MONITOR_FUTURE_EPISODES /\ WindowLength < EPISODE_BUFFER
            THEN 1 ELSE 0)

\* C4: for EPISODE_BUFFER >= 1, if the catalog holds the watched episode,
\* the watched entry is unmonitored (set_wanted(id, False)) by the time
\* get_next_episodes returns, and before any wanted/search request.
C4_UnmonitorWatchedFirst ==
    (WatchedFound /\ EPISODE_BUFFER >= 1)
    => /\ ScanReturned => Issued("set_wanted", Catalog[WatchedPos].id, FALSE)
       /\ \A j \in DOMAIN calls :
            IsWindowMutation(j) =>
              \E m \in 1..(j - 1) :
                 /\ calls[m].op = "set_wanted"
                 /\ calls[m].id = Catalog[WatchedPos].id
                 /\ ~calls[m].wanted

\* A finished run that unmonitored the watched episode (not the first
\* catalog entry) and then marked a later entry wanted.
C4_Witness ==
    /\ pc = "done"
    /\ WatchedFound
    /\ EPISODE_BUFFER >= 1
    /\ WatchedPos > 1
    /\ Issued("set_wanted", Catalog[WatchedPos].id, FALSE)
    /\ \E j \in DOMAIN calls : calls[j].op = "set_wanted" /\ calls[j].wanted

\* C5: if no catalog entry carries the event's season and episode numbers,
\* no set_wanted (either value) and no search_episode request is sent, and
\* a finished run has sent monitor_future_episodes when
\* MONITOR_FUTURE_EPISODES is set and EPISODE_BUFFER > 0.
C5_AbsentNoMutation ==
    WatchedAbsent
    => /\ \A j \in DOMAIN calls :
            calls[j].op \notin {"set_wanted", "search_episode"}
       /\ (pc = "done" /\ MONITOR_FUTURE_EPISODES /\ EPISODE_BUFFER > 0)
            => Issued("monitor_future_episodes", series_id, FALSE)

\* A finished run over a non-empty catalog without the watched episode that
\* switched the series to future monitoring.
C5_Witness ==
    /\ pc = "done"
    /\ WatchedAbsent
    /\ Len(Catalog) >= 1
    /\ EPISODE_BUFFER > 0
    /\ MONITOR_FUTURE_EPISODES
    /\ calls[Len(calls)].op = "monitor_future_episodes"

\* C6: for every entry of the returned window: with a file, no set_wanted
\* and no search_episode request is sent for it; without a file,
\* set_wanted(id, True) is sent once iff SET_WANTED and search_episode once
\* iff AUTO_SEARCH.
C6_WindowEntriesByFile ==
    (pc = "done" /\ ~IsNone(mainNextEpisodes))
    => \A m \in 1..Len(ListOf(mainNextEpisodes)) :
         LET e == ListOf(mainNextEpisodes)[m]
         IN  IF e.hasFile
               THEN \A j \in DOMAIN calls :
                      calls[j].op \in {"set_wanted", "search_episode"}
                        => calls[j].id # e.id
               ELSE /\ Times("set_wanted", e.id, TRUE) =
                         (IF SET_WANTED THEN 1 ELSE 0)
                    /\ Times("search_episode", e.id, FALSE) =
                         (IF AUTO_SEARCH THEN 1 ELSE 0)

\* C7: if the series-name lookup (get_tvdb_id) fails, no further request is
\* sent in the run.
C7_AbortAfterFailedLookup ==
    \A j \in DOMAIN calls :
        (calls[j].op = "get_tvdb_id" /\ ~calls[j].ok) => Len(calls) = j

\* C8: a failed series lookup, internal-id lookup or catalog fetch ends the
\* run in a controlled way: nothing is sent after it and the process does
\* not end with an unhandled exception.
C8_ControlledAbort ==
    \A j \in DOMAIN calls :
        (calls[j].op \in {"get_tvdb_id", "get_series_id", "get_episodes"}
           /\ ~calls[j].ok)
        => /\ Len(calls) = j
           /\ pc # "crashed"

\* The API key of the service the run needs is not configured.
NeededKeyMissing ==
    /\ p.media_title # ""
    /\ \/ p.season_number # EmptyArg /\ ~SONARR_APIKEY
       \/ p.season_number = EmptyArg /\ ~RADARR_APIKEY

\* C9: when the API key of the needed service is missing, the run sends no
\* request at all and ends with exit status 1.
C9_MissingKeyNoCalls ==
    NeededKeyMissing
    => /\ calls = <<>>
       /\ pc \in {"start", "exited"}
       /\ pc = "exited" => exit_code = 1

\* An episode run stopped with status 1 for the missing Sonarr key.
C9_Witness ==
    /\ pc = "exited"
    /\ exit_code = 1
    /\ calls = <<>>
    /\ p.season_number # EmptyArg
    /\ ~SONARR_APIKEY

\* C10: after a failed wanted/search request for a window entry the run
\* does not stop: it never ends with an unhandled exception, and when it
\* finishes every window entry without a file has received its requests
\* and the line-221 exhaustion check has been applied to the window.
C10_MutationFailureNonFatal ==
    \A j \in DOMAIN calls :
        (IsWindowMutation(j) /\ ~calls[j].ok)
        => /\ pc # "crashed"
           /\ exit_code # 1
           /\ pc = "done" =>
                /\ ~IsNone(mainNextEpisodes)
                /\ DueCallsIssued(ListOf(mainNextEpisodes))
                /\ (MonitorFutureTimes = 1) <=>
                     (MONITOR_FUTURE_EPISODES
                        /\ Len(ListOf(mainNextEpisodes)) < EPISODE_BUFFER)

\* A finished run in which marking one window entry wanted failed and a
\* request for a later window entry was sent afterwards.
C10_Witness ==
    /\ pc = "done"
    /\ \E j \in DOMAIN calls :
         /\ calls[j].op = "set_wanted" /\ calls[j].wanted /\ ~calls[j].ok
         /\ \E m \in (j + 1)..Len(calls) :
              IsWindowMutation(m) /\ calls[m].id # calls[j].id

\* ------------------------------------------- a service that never answers
\* The run is at a point where its next step sends a request: the lookups
\* (lines 38, 51, 146, 178), set_wanted (70, 217), search_episode (219),
\* monitor_future_episodes (222) and set_movie_wanted (229).
SendsRequest ==
    \/ pc \in {"get_tvdb_id", "get_series_id", "get_episodes",
               "get_movie_id", "set_movie_wanted"}
    \/ /\ pc = "get_next_episodes"
       /\ ~IsNone(episodes)
       /\ i <= Len(ListOf(episodes))
       /\ LET episode == ListOf(episodes)[i]
              next == IF foundCurEpisode
                        THEN Append(nextEpisodes, episode)
                        ELSE nextEpisodes
          IN  /\ ~BufferFull(next)
              /\ ~CompareRaises(episode, p.season_number, p.episode_number)
              /\ IsCurEpisode(episode, p.season_number, p.episode_number)
    \/ /\ pc = "apply"
       /\ ~IsNone(mainNextEpisodes)
       /\ k <= Len(ListOf(mainNextEpisodes))
       /\ EpisodeCalls(ListOf(mainNextEpisodes)[k], TRUE, TRUE) # <<>>
    \/ /\ pc = "monitor_future"
       /\ MonitorFutureDue(mainNextEpisodes)

\* requests.get / put / post are called without a timeout argument (lines
\* 38, 51, 77, 88, 100, 146, 166, 178): when the service accepts
\* the connection and never answers, the call never returns and raises
\* nothing, so the run stays inside it.
NoAnswer ==
    /\ SendsRequest = TRUE
    /\ pc' = "blocked"
    /\ UNCHANGED <<prev, eventVars>>
    /\ UNCHANGED <<settings, p, exit_code, calls, tvdb_id, series_id, movie_id,
                   episodes, i, nextEpisodes, foundCurEpisode,
                   mainNextEpisodes, k>>

NextNoAnswer ==
    \/ Next
    \/ NoAnswer

\* Runs against services that may leave a request unanswered.
SpecNoAnswer == Init /\ [][NextNoAnswer]_vars

\* ------------------------------------------------- a second invocation
\* The script is started again (lines 187-198) for the same series after a
\* run that found the series, fetched its catalog and ended with
\* sys.exit(0): new arguments with the same title and season, every local
\* of the run back to its initial value.  The finished run's arguments,
\* catalog and requests are kept in `prev`.
Rerun ==
    /\ prev = <<>>
    /\ pc = "done"
    /\ tvdb_id # None
    /\ series_id # None
    /\ ~IsNone(episodes)
    /\ prev' = <<[p |-> p, catalog |-> ListOf(episodes), calls |-> calls]>>
    /\ \E q \in Args :
         /\ q.media_title = p.media_title
         /\ q.season_number = p.season_number
         /\ q.episode_number # EmptyArg
         /\ p' = q
    /\ pc' = "start"
    /\ exit_code' = None
    /\ calls' = <<>>
    /\ tvdb_id' = None
    /\ series_id' = None
    /\ movie_id' = None
    /\ episodes' = NoList
    /\ i' = 1
    /\ nextEpisodes' = <<>>
    /\ foundCurEpisode' = FALSE
    /\ mainNextEpisodes' = NoList
    /\ k' = 1
    /\ UNCHANGED <<settings, eventVars>>

\* First runs that have a title and both API keys; an episode run has its
\* episode number.  MONITOR_FUTURE_EPISODES, which touches no episode's
\* flag, is left at its default (line 30).
InitTwice ==
    /\ Init
    /\ SONARR_APIKEY
    /\ RADARR_APIKEY
    /\ ~MONITOR_FUTURE_EPISODES
    /\ p.media_title # ""
    /\ p.season_number # EmptyArg => p.episode_number # EmptyArg

NextTwice ==
    \/ Next
    \/ Rerun

\* Two invocations for the same series, one after the other.
SpecTwice == InitTwice /\ [][NextTwice]_vars

\* ------------------------------------------------ effect on the service
\* The answered /api/v3/episode/monitor requests of a log (lines 74-79:
\* each sets the monitored flag of one episode id).
MonitoredWrites(log) == SelectSeq(log, LAMBDA c : c.op = "set_wanted" /\ c.ok)

\* The monitored flag of episode `id` after the writes, "unchanged" when
\* none of them is for that id.
FlagAfter(writes, id) ==
    LET S == { j \in DOMAIN writes : writes[j].id = id }
    IN  IF S = {} THEN "unchanged"
        ELSE LET last == CHOOSE j \in S : \A j2 \in S : j2 <= j
             IN  IF writes[last].wanted THEN "monitored" ELSE "unmonitored"

Flags(writes) == [id \in 1..MaxCatalog |-> FlagAfter(writes, id)]

\* The episodes for which an answered EpisodeSearch command was sent
\* (lines 86-90).
Searched(log) ==
    { log[j].id : j \in { j2 \in DOMAIN log :
                             log[j2].op = "search_episode" /\ log[j2].ok } }

\* The orders in which the service can receive the writes of two
\* invocations running at the same time: each invocation's own order is
\* kept.  Neither invocation reads a monitored flag, so the requests of
\* each are those of its run alone.
RECURSIVE Merges(_, _)
Merges(a, b) ==
    IF a = <<>> THEN {b}
    ELSE IF b = <<>> THEN {a}
    ELSE { <<Head(a)>> \o m : m \in Merges(Tail(a), b) }
         \cup { <<Head(b)>> \o m : m \in Merges(a, Tail(b)) }

\* The run has ended: sys.exit (lines 208, 223, 227, 230, 236) or an
\* uncaught exception.
Terminated == pc \in {"done", "exited", "crashed"}

\* The run handles a movie event (title given, no season number).
OnMoviePath == p.media_title # "" /\ p.season_number = EmptyArg

\* C11: a movie run whose lookup succeeded sends exactly one
\* set_movie_wanted(id, False), for the id the lookup returned, and no
\* series lookup, catalog fetch, episode request or monitor_future_episodes.
C11_MovieSingleUnmonitor ==
    OnMoviePath
    => /\ \A j \in DOMAIN calls :
            calls[j].op \in {"get_movie_id", "set_movie_wanted"}
       /\ (pc = "done" /\ movie_id # None)
            => /\ Times("set_movie_wanted", movie_id, FALSE) = 1
               /\ \A j \in DOMAIN calls :
                    calls[j].op = "set_movie_wanted"
                      => calls[j].id = movie_id /\ ~calls[j].wanted

\* A finished movie run whose lookup returned an id.
C11_Witness ==
    /\ pc = "done"
    /\ OnMoviePath
    /\ movie_id # None
    /\ Len(calls) = 2
    /\ calls[2].op = "set_movie_wanted"

\* C12: when several catalog entries carry the watched numbers, only the
\* first of them is unmonitored and the window starts right after it.
C12_FirstOccurrenceOnly ==
    WatchedFound
    => /\ \A j \in DOMAIN calls :
            (calls[j].op = "set_wanted" /\ ~calls[j].wanted)
              => calls[j].id = Catalog[WatchedPos].id
       /\ (ScanReturned /\ ~IsNone(mainNextEpisodes)
             /\ Len(ListOf(mainNextEpisodes)) >= 1)
            => ListOf(mainNextEpisodes)[1] = Catalog[WatchedPos + 1]

\* C16: a run that did not complete its workflow (no title, a failed lookup
\* or catalog fetch, or every monitor/search request failed) does not end
\* with the exit status 0 of a fully successful run.
C16_ExitStatusReflectsOutcome ==
    (pc \in {"done", "exited", "crashed"} /\ exit_code = 0)
    => /\ p.media_title # ""
       /\ \A j \in DOMAIN calls :
            calls[j].op \notin MutationOps => calls[j].ok
       /\ \/ \A j \in DOMAIN calls : calls[j].op \notin MutationOps
          \/ \E j \in DOMAIN calls : calls[j].op \in MutationOps /\ calls[j].ok

\* C15: every run terminates, also when a service never answers: a run
\* that has not ended can always take a further step.
C15_RunAlwaysProceeds == Terminated \/ ENABLED NextNoAnswer

\* The second of two runs has ended with the arguments of the first.
SecondRunDone == prev # <<>> /\ pc = "done" /\ p = prev[1].p

\* Every request of both runs was answered without error.
AllAnswered ==
    /\ \A j \in DOMAIN prev[1].calls : prev[1].calls[j].ok
    /\ \A j \in DOMAIN calls : calls[j].ok

\* The second run left the monitored flags and the searched set as the
\* first run had left them.
SameEffect ==
    /\ Flags(MonitoredWrites(prev[1].calls \o calls))
         = Flags(MonitoredWrites(prev[1].calls))
    /\ Searched(prev[1].calls \o calls) = Searched(prev[1].calls)

C14_InterleavingSerializable ==
    (prev # <<>> /\ pc = "done")
    => LET a == MonitoredWrites(prev[1].calls)
           b == MonitoredWrites(calls)
       IN  \A m \in Merges(a, b) : Flags(m) \in {Flags(a \o b), Flags(b \o a)}

\* ===================================================== the event scripts
\* The scripts JellyPy starts for an event: scripts/tests/test_execution_mode.py,
\* examples/basic_notification.py and scripts/tests/test_script_execution.py.
\* Each reads sys.argv and os.environ once and ends.

\* ------------------------------------------------------------ values
\* A dict is a function from its keys; {} has no key.
EmptyDict == [key \in {} |-> ""]

\* dict.update(other) (basic_notification.py line 77): the keys of `other`
\* are added, existing keys are overwritten.
DictUpdate(d, other) ==
    [key \in DOMAIN d \cup DOMAIN other |->
        IF key \in DOMAIN other THEN other[key] ELSE d[key]]

\* One command-line argument, by what json.loads makes of it: "text" is
\* text json.loads rejects; the other kinds are the JSON value it returns,
\* with the object's members in `fields` and a scalar's or an array's
\* source text in `text`.
Text(str) == [kind |-> "text", text |-> str, fields |-> EmptyDict]
JsonObject(d) == [kind |-> "object", text |-> "", fields |-> d]
JsonValue(kind, str) == [kind |-> kind, text |-> str, fields |-> EmptyDict]

\* JSON values that are not objects: 0, 123, "", "abc", [], [1], true,
\* false, null.
NonObjects ==
    { JsonValue("number", "0"), JsonValue("number", "123"),
      JsonValue("string", ""), JsonValue("string", "abc"),
      JsonValue("array", "[]"), JsonValue("array", "[1]"),
      JsonValue("bool", "true"), JsonValue("bool", "false"),
      JsonValue("null", "null") }

\* json.loads(arg) raises json.JSONDecodeError.
JsonDecodeError(arg) == arg.kind = "text"

\* bool(value), as `if json_payload:` of test_script_execution.py line 118
\* evaluates it.
Truthy(value) ==
    CASE value.kind = "object" -> DOMAIN value.fields # {}
      [] value.kind = "number" -> value.text # "0"
      [] value.kind = "string" -> value.text # ""
      [] value.kind = "array"  -> value.text # "[]"
      [] value.kind = "bool"   -> value.text = "true"
      [] OTHER                 -> FALSE

\* dict.update(value) raises: TypeError for a number, a boolean, None and a
\* list of numbers, ValueError for a non-empty string (its elements are
\* not pairs).  An empty string or list adds nothing and raises nothing.
UpdateRaises(value) ==
    CASE value.kind = "object" -> FALSE
      [] value.kind = "string" -> value.text # ""
      [] value.kind = "array"  -> value.text # "[]"
      [] OTHER                 -> TRUE

\* ------------------------------------------------------------ events
\* The event types an event can carry: two that basic_notification.py
\* routes to a handler of their own (lines 93-100) and one it does not.
EventTypes == {"PlaybackStart", "ItemAdded", "SessionStart"}

\* What an event means: its type, its user and its item.
Events == [event_type : EventTypes, user_name : {"TestUser"},
           item_name : {"Test Movie"}]

\* standalone_test.py, create_test_event_data (lines 31-50): the event as
\* Jellyfin hands it over, with PascalCase keys.
create_test_event_data(e) ==
    [key \in {"EventType", "Timestamp", "UserName", "ItemName", "ItemId"} |->
        CASE key = "EventType" -> e.event_type
          [] key = "Timestamp" -> "2024-01-01T00:00:00"
          [] key = "UserName"  -> e.user_name
          [] key = "ItemName"  -> e.item_name
          [] key = "ItemId"    -> "87654321"]

\* standalone_test.py line 63: an underscore before every capital but the
\* first, everything in upper case.
EnvKey(key) ==
    CASE key = "EventType" -> "EVENT_TYPE"
      [] key = "Timestamp" -> "TIMESTAMP"
      [] key = "UserName"  -> "USER_NAME"
      [] key = "ItemName"  -> "ITEM_NAME"
      [] key = "ItemId"    -> "ITEM_ID"
      [] key = "ItemType"  -> "ITEM_TYPE"

\* test_script_execution.py line 121: var.title().replace('_', '').
KeyGuess(var) ==
    CASE var = "EVENT_TYPE" -> "EventType"
      [] var = "TIMESTAMP"  -> "Timestamp"
      [] var = "USER_NAME"  -> "UserName"
      [] var = "ITEM_NAME"  -> "ItemName"
      [] var = "ITEM_ID"    -> "ItemId"
      [] var = "ITEM_TYPE"  -> "ItemType"

\* The three ways standalone_test.py hands an event to a script: the
\* arguments and the event variables of the environment it starts it with.
\* execute_script_env_mode (lines 53-86).
EnvTransport(e) ==
    LET d == create_test_event_data(e)
    IN  [argv |-> <<>>,
         environ |-> [name \in { EnvKey(key) : key \in DOMAIN d } |->
                        d[CHOOSE key \in DOMAIN d : EnvKey(key) = name]]]

\* execute_script_args_mode (lines 89-124).
ArgsTransport(e) ==
    LET d == create_test_event_data(e)
    IN  [argv |-> <<Text(d["EventType"]), Text(d["UserName"]),
                    Text(d["ItemName"]), Text(d["ItemId"]),
                    Text(d["Timestamp"])>>,
         environ |-> EmptyDict]

\* execute_script_json_mode (lines 127-155): json.dumps(event_data) as the
\* only argument.
JsonTransport(e) ==
    [argv |-> <<JsonObject(create_test_event_data(e))>>, environ |-> EmptyDict]

\* ------------------------------------------------------------ inputs
\* First arguments: text that is not JSON, JSON values that are not
\* objects, the empty object, events with the PascalCase keys of Jellyfin
\* and objects with the key basic_notification.py itself uses.
\* The ItemAdded payloads Jellyfin hands to discord_notification.py: a
\* movie, an episode, or another item, with or without the integer
\* SeasonNumber and EpisodeNumber fields.
ItemAddedPayloads ==
    { [key \in {"EventType", "ItemType"} \cup numbers |->
          CASE key = "EventType"     -> "ItemAdded"
            [] key = "ItemType"      -> item_type
            [] key = "SeasonNumber"  -> "1"
            [] key = "EpisodeNumber" -> "2"] :
      item_type \in {"Movie", "Episode", "Audio"},
      numbers \in SUBSET {"SeasonNumber", "EpisodeNumber"} }

FirstArgs ==
    {Text("hello"), JsonObject(EmptyDict)}
    \cup NonObjects
    \cup { JsonObject(create_test_event_data(e)) : e \in Events }
    \cup { JsonObject([key \in {"event_type"} |-> t]) : t \in EventTypes }
    \cup { JsonObject(d) : d \in ItemAddedPayloads }

Argvs ==
    {<<>>}
    \cup { <<a>> : a \in FirstArgs }
    \cup { ArgsTransport(e).argv : e \in Events }

\* The event variables an environment can hold, and their values.
EnvNames == {"EVENT_TYPE", "USER_NAME", "ITEM_NAME", "TIMESTAMP", "ITEM_ID",
             "ITEM_TYPE"}

EnvValues(name) ==
    CASE name = "EVENT_TYPE" -> EventTypes
      [] name = "USER_NAME"  -> {"TestUser"}
      [] name = "ITEM_NAME"  -> {"Test Movie"}
      [] name = "TIMESTAMP"  -> {"2024-01-01T00:00:00"}
      [] name = "ITEM_ID"    -> {"87654321"}
      [] name = "ITEM_TYPE"  -> {"Movie", "Episode"}

EventEnvirons ==
    UNION { { env \in [S -> UNION { EnvValues(name) : name \in EnvNames }] :
                \A name \in S : env[name] \in EnvValues(name) }
            : S \in SUBSET EnvNames }

\* The notification settings an environment can hold: none, the Discord
\* webhook, the SMTP server alone, the complete SMTP settings, both
\* channels.
ConfigEnvirons ==
    LET Config(S) == [name \in S |-> "configured"]
        Smtp == {"SMTP_SERVER", "SMTP_USER", "SMTP_PASS", "EMAIL_TO"}
    IN  { Config({}), Config({"DISCORD_WEBHOOK_URL"}), Config({"SMTP_SERVER"}),
          Config(Smtp), Config(Smtp \cup {"DISCORD_WEBHOOK_URL"}) }

Environs == { DictUpdate(env, config) : env \in EventEnvirons,
                                        config \in ConfigEnvirons }

EventScripts == {"test_execution_mode", "basic_notification",
                 "test_script_execution", "discord_notification"}

\* os.getenv(name, default).
getenv(env, name, default) ==
    IF name \in DOMAIN env THEN env[name] ELSE default

\* --------------------------------------------- test_execution_mode.py
\* Faulty variant of detect_execution_mode: the environment is looked at
\* before the first argument.
detect_execution_mode_env_first(args, env) ==
    IF DOMAIN env \cap {"EVENT_TYPE", "USER_NAME", "ITEM_NAME", "TIMESTAMP"} # {}
      THEN "Compatibility"
    ELSE IF Len(args) > 0 /\ ~JsonDecodeError(args[1]) THEN "JsonPayload"
    ELSE IF Len(args) > 0 THEN "Command Arguments"
    ELSE "Unknown"

\* detect_execution_mode, lines 52-72.
detect_execution_mode(args, env) ==
    IF Len(args) > 0 /\ ~JsonDecodeError(args[1]) THEN "JsonPayload"
    ELSE IF DOMAIN env \cap {"EVENT_TYPE", "USER_NAME", "ITEM_NAME",
                             "TIMESTAMP"} # {}
      THEN "Compatibility"
    ELSE IF Len(args) > 0 THEN "Command Arguments"
    ELSE "Unknown"

\* ---------------------------------------------- basic_notification.py
\* _gather_event_data, lines 54-82: the environment with its defaults,
\* then the members of a JSON first argument on top.  Only
\* json.JSONDecodeError is caught (line 79): what dict.update raises leaves
\* the function.  `data` is the dict returned, `raised` says an exception
\* left the function instead.
gather_event_data(args, env) ==
    LET env_data ==
          [key \in {"event_type", "timestamp", "user_name", "item_name",
                    "item_type"} |->
              CASE key = "event_type" -> getenv(env, "EVENT_TYPE", "Unknown")
                [] key = "timestamp"  -> getenv(env, "TIMESTAMP", "now")
                [] key = "user_name"  -> getenv(env, "USER_NAME", "System")
                [] key = "item_name"  -> getenv(env, "ITEM_NAME", "Unknown")
                [] key = "item_type"  -> getenv(env, "ITEM_TYPE", "Unknown")]
    IN  IF Len(args) > 0 /\ ~JsonDecodeError(args[1])
          THEN IF UpdateRaises(args[1])
                 THEN [raised |-> TRUE, data |-> EmptyDict]
                 ELSE [raised |-> FALSE,
                       data |-> DictUpdate(env_data, args[1].fields)]
          ELSE [raised |-> FALSE, data |-> env_data]

\* handle_event, lines 93-102: the handler the event type is routed to.
RoutedHandler(event_type) ==
    CASE event_type = "PlaybackStart" -> "_handle_playback_start"
      [] event_type = "PlaybackStop"  -> "_handle_playback_stop"
      [] event_type = "ItemAdded"     -> "_handle_item_added"
      [] event_type = "UserCreated"   -> "_handle_user_created"
      [] OTHER                        -> "_handle_generic_event"

\* The handlers that call _send_notification (lines 123, 139, 155, 170);
\* _handle_generic_event (178-185) only writes to the log.
Notifies(handler_name) ==
    handler_name \in {"_handle_playback_start", "_handle_playback_stop",
                      "_handle_item_added", "_handle_user_created"}

\* Faulty variant of SendNotification: a failing Discord request ends the
\* notification.
SendNotificationStopOnFailure(env, discordOk, emailOk, desktopOk) ==
    IF "DISCORD_WEBHOOK_URL" \in DOMAIN env /\ ~discordOk
      THEN <<[channel |-> "discord", ok |-> FALSE]>>
      ELSE (IF "DISCORD_WEBHOOK_URL" \in DOMAIN env
              THEN <<[channel |-> "discord", ok |-> discordOk]>> ELSE <<>>)
           \o (IF {"SMTP_SERVER", "SMTP_USER", "SMTP_PASS", "EMAIL_TO"}
                     \subseteq DOMAIN env
                 THEN <<[channel |-> "email", ok |-> emailOk]>> ELSE <<>>)
           \o <<[channel |-> "desktop", ok |-> desktopOk]>>

\* _send_notification, lines 213-235: the sends attempted, in order.  The
\* Discord request is made when DISCORD_WEBHOOK_URL is set and whatever it
\* raises is caught (lines 257-260); the mail is sent when SMTP_SERVER is
\* set and the SMTP settings are complete (lines 274-276 return otherwise),
\* again inside try/except (290); notify-send is always run (232-235).
SendNotification(env, discordOk, emailOk, desktopOk) ==
    (IF "DISCORD_WEBHOOK_URL" \in DOMAIN env
       THEN <<[channel |-> "discord", ok |-> discordOk]>> ELSE <<>>)
    \o (IF {"SMTP_SERVER", "SMTP_USER", "SMTP_PASS", "EMAIL_TO"}
              \subseteq DOMAIN env
          THEN <<[channel |-> "email", ok |-> emailOk]>> ELSE <<>>)
    \o <<[channel |-> "desktop", ok |-> desktopOk]>>

\* Faulty variant of ItemTypeHandler: the event type is not looked at.
ItemTypeHandlerAnyEvent(handler_name, item_type) ==
    CASE item_type = "Movie"   -> "_handle_movie_playback"
      [] item_type = "Episode" -> "_handle_episode_playback"
      [] OTHER                 -> ""

\* _handle_playback_start, lines 125-129: the item-type handler called
\* after the notification; no other handler calls one.
ItemTypeHandler(handler_name, item_type) ==
    IF handler_name # "_handle_playback_start" THEN ""
    ELSE CASE item_type = "Movie"   -> "_handle_movie_playback"
           [] item_type = "Episode" -> "_handle_episode_playback"
           [] OTHER                 -> ""

\* ---------------------------------------------- discord_notification.py
\* event_data.get(key): the value, or Python's None.
PyNone == "None"

DictGet(d, key) == IF key \in DOMAIN d THEN d[key] ELSE PyNone

\* main, lines 156-174: the formatter the event is given to, or "ignored"
\* when main returns without a payload.
Formatter(d) ==
    LET event_type == DictGet(d, "EventType")
        item_type == DictGet(d, "ItemType")
    IN  CASE event_type = "SeriesEpisodesAdded" ->
               "format_grouped_episodes_message"
          [] event_type = "ItemAdded" ->
               (CASE item_type = "Movie"   -> "format_movie_message"
                  [] item_type = "Episode" -> "format_episode_message"
                  [] OTHER                 -> "ignored")
          [] event_type = "PlaybackStart" -> "format_playback_start_message"
          [] OTHER -> "ignored"

\* format_episode_message, lines 63-67: season_number and episode_number
\* are None when the payload lacks them, and the format `:02d` of line 67
\* raises TypeError for None.  The other formatters give every field they
\* format a default.
FormatRaises(formatter, d) ==
    /\ formatter = "format_episode_message"
    /\ \/ DictGet(d, "SeasonNumber") = PyNone
       \/ DictGet(d, "EpisodeNumber") = PyNone

\* main, lines 141-177, with get_webhook_url (29-35) and
\* send_discord_notification (131-139): the exit status, the decoded
\* payload, the formatter and the sends attempted.  An exception main does
\* not catch ends the interpreter with status 1.
discord_main(args, env, sendOk) ==
    LET Exit(d, f) == [status |-> 1, data |-> d, formatter |-> f,
                       attempts |-> <<>>]
    IN  IF Len(args) < 1 THEN Exit(EmptyDict, "")
        ELSE IF "DISCORD_WEBHOOK_URL" \notin DOMAIN env THEN Exit(EmptyDict, "")
        ELSE IF JsonDecodeError(args[1]) THEN Exit(EmptyDict, "")
        ELSE IF args[1].kind # "object" THEN Exit(EmptyDict, "")
        ELSE LET d == args[1].fields
                 f == Formatter(d)
             IN  IF f = "ignored"
                   THEN [status |-> 0, data |-> d, formatter |-> f,
                         attempts |-> <<>>]
                 ELSE IF FormatRaises(f, d) THEN Exit(d, f)
                 ELSE [status |-> IF sendOk THEN 0 ELSE 1, data |-> d,
                       formatter |-> f,
                       attempts |-> <<[channel |-> "discord", ok |-> sendOk]>>]

\* -------------------------------------------- test_script_execution.py
\* main lines 239-244 and extract_jellpy_variables (89-141): a truthy JSON
\* first argument is read with .get under the PascalCase guess of each
\* variable name, which raises AttributeError unless it is an object;
\* otherwise the environment is read.
extract_jellpy_variables(args, env) ==
    LET jellypy_vars == {"EVENT_TYPE", "TIMESTAMP", "USER_NAME", "ITEM_NAME",
                         "ITEM_ID", "ITEM_TYPE"}
    IN  IF Len(args) > 0 /\ ~JsonDecodeError(args[1]) /\ Truthy(args[1])
          THEN IF args[1].kind # "object"
                 THEN [raised |-> TRUE, data |-> EmptyDict]
                 ELSE [raised |-> FALSE,
                       data |-> [var \in { v \in jellypy_vars :
                                           KeyGuess(v) \in DOMAIN args[1].fields }
                                   |-> args[1].fields[KeyGuess(var)]]]
          ELSE [raised |-> FALSE,
                data |-> [var \in jellypy_vars \cap DOMAIN env |-> env[var]]]

\* ------------------------------------------------------------ runs
\* An event script is started with some arguments and environment;
\* legacy_download.py is not running.
InitEvent ==
    /\ script \in EventScripts
    /\ argv \in Argvs
    /\ environ \in Environs
    /\ epc = "start"
    /\ mode = ""
    /\ event_data = EmptyDict
    /\ handler = ""
    /\ status = None
    /\ section = ""
    /\ attempts = <<>>
    /\ reaction = ""
    /\ prev = <<>>
    /\ settings = [SONARR_APIKEY |-> FALSE, RADARR_APIKEY |-> FALSE,
                   EPISODE_BUFFER |-> MaxBuffer, SET_WANTED |-> TRUE,
                   AUTO_SEARCH |-> TRUE, MONITOR_FUTURE_EPISODES |-> TRUE]
    /\ p = [media_title |-> "", season_number |-> EmptyArg,
            episode_number |-> EmptyArg]
    /\ pc = "idle"
    /\ exit_code = None
    /\ calls = <<>>
    /\ tvdb_id = None
    /\ series_id = None
    /\ movie_id = None
    /\ episodes = NoList
    /\ i = 1
    /\ nextEpisodes = <<>>
    /\ foundCurEpisode = FALSE
    /\ mainNextEpisodes = NoList
    /\ k = 1

\* log_execution, lines 38-43: the section written for the detected mode,
\* "" when no branch matches.
LoggedSection(execution_mode) ==
    CASE execution_mode = "JSON Payload"          -> "log_json_mode"
      [] execution_mode = "Environment Variables" -> "log_env_mode"
      [] execution_mode = "Command Arguments"     -> "log_args_mode"
      [] OTHER                                    -> ""

\* test_execution_mode.py, main (151-161) and log_execution (20-49): the
\* mode is detected and logged, main returns 0.
DetectExecutionMode ==
    /\ script = "test_execution_mode"
    /\ epc = "start"
    /\ mode' = detect_execution_mode(argv, environ)
    /\ section' = LoggedSection(mode')
    /\ epc' = "done"
    /\ status' = 0
    /\ UNCHANGED <<attempts, reaction>>
    /\ UNCHANGED <<plannerVars, prev, script, argv, environ, event_data, handler>>

\* basic_notification.py, main line 304: JellyPyEventHandler() gathers the
\* event data; an exception is caught at line 309 and the script ends with
\* sys.exit(1).
GatherEventData ==
    /\ script = "basic_notification"
    /\ epc = "start"
    /\ LET r == gather_event_data(argv, environ)
       IN  IF r.raised
             THEN /\ epc' = "exited"
                  /\ status' = 1
                  /\ event_data' = event_data
             ELSE /\ epc' = "handle_event"
                  /\ status' = status
                  /\ event_data' = r.data
    /\ UNCHANGED <<section, attempts, reaction>>
    /\ UNCHANGED <<plannerVars, prev, script, argv, environ, mode, handler>>

\* basic_notification.py, main line 305 and handle_event (84-102) with the
\* handler it calls (104-185); main then returns and the exit status is 0.
HandleEvent ==
    /\ script = "basic_notification"
    /\ epc = "handle_event"
    /\ handler' = RoutedHandler(event_data["event_type"])
    /\ \E discordOk, emailOk, desktopOk \in BOOLEAN :
         attempts' = IF Notifies(handler')
                       THEN SendNotification(environ, discordOk, emailOk,
                                             desktopOk)
                       ELSE <<>>
    /\ reaction' = ItemTypeHandler(handler', event_data["item_type"])
    /\ epc' = "done"
    /\ status' = 0
    /\ UNCHANGED section
    /\ UNCHANGED <<plannerVars, prev, script, argv, environ, mode, event_data>>

\* test_script_execution.py, main (231-263): the variables are extracted
\* and reported, sys.exit(0); any exception ends in sys.exit(1).
ExtractJellypyVariables ==
    /\ script = "test_script_execution"
    /\ epc = "start"
    /\ LET r == extract_jellpy_variables(argv, environ)
       IN  IF r.raised
             THEN /\ epc' = "exited"
                  /\ status' = 1
                  /\ event_data' = event_data
             ELSE /\ epc' = "done"
                  /\ status' = 0
                  /\ event_data' = r.data
    /\ UNCHANGED <<section, attempts, reaction>>
    /\ UNCHANGED <<plannerVars, prev, script, argv, environ, mode, handler>>

\* discord_notification.py, main (141-177); sendOk is whether the webhook
\* request succeeds.
DiscordMain ==
    /\ script = "discord_notification"
    /\ epc = "start"
    /\ \E sendOk \in BOOLEAN :
         LET r == discord_main(argv, environ, sendOk)
         IN  /\ status' = r.status
             /\ epc' = IF r.status = 0 THEN "done" ELSE "exited"
             /\ event_data' = r.data
             /\ handler' = r.formatter
             /\ attempts' = r.attempts
    /\ UNCHANGED <<section, reaction>>
    /\ UNCHANGED <<plannerVars, prev, script, argv, environ, mode>>

NextEvent ==
    \/ DetectExecutionMode
    \/ GatherEventData
    \/ HandleEvent
    \/ ExtractJellypyVariables
    \/ DiscordMain

\* One invocation of an event script.
SpecEvent == InitEvent /\ [][NextEvent]_vars

\* ------------------------------------------------------------ claims
\* The first argument exists and json.loads accepts it.
FirstArgIsJson == argv # <<>> /\ argv[1].kind # "text"

\* One of EVENT_TYPE, USER_NAME, ITEM_NAME, TIMESTAMP is in the environment.
EventVarSet ==
    \E name \in {"EVENT_TYPE", "USER_NAME", "ITEM_NAME", "TIMESTAMP"} :
        name \in DOMAIN environ

\* test_execution_mode.py has detected the mode.
ModeDetected == script = "test_execution_mode" /\ epc = "done"

\* C17: the detected mode is the first match of: JSON payload when the
\* first argument parses as JSON; else environment mode when one of the
\* four event variables is set; else arguments mode when an argument is
\* present; else Unknown.
C17_ModePriority ==
    ModeDetected
    => /\ mode \in {"JsonPayload", "Compatibility", "Command Arguments",
                    "Unknown"}
       /\ mode = "JsonPayload" <=> FirstArgIsJson
       /\ mode = "Compatibility" <=> (~FirstArgIsJson /\ EventVarSet)
       /\ mode = "Command Arguments"
            <=> (~FirstArgIsJson /\ ~EventVarSet /\ argv # <<>>)
       /\ mode = "Unknown" <=> (~FirstArgIsJson /\ ~EventVarSet /\ argv = <<>>)

\* A JSON first argument won although event variables are set.
C17_Witness ==
    /\ ModeDetected
    /\ FirstArgIsJson
    /\ EventVarSet
    /\ mode = "JsonPayload"

\* The first argument is JSON but not an object.
FirstArgNonObject == argv # <<>> /\ argv[1].kind \notin {"text", "object"}

\* The arguments with the first one replaced by text that is not JSON.
ArgvUnparsed == <<Text("hello")>> \o Tail(argv)

\* C18: a first argument that is JSON but not an object is treated as not
\* JSON: the JSON mode is not selected, and the scripts decode as they
\* would had the argument failed to parse.
C18_NonObjectIsNotJson ==
    FirstArgNonObject
    => /\ ModeDetected
            => /\ mode # "JsonPayload"
               /\ mode = detect_execution_mode(ArgvUnparsed, environ)
       /\ (script = "basic_notification" /\ epc # "start")
            => /\ epc # "exited"
               /\ event_data = gather_event_data(ArgvUnparsed, environ).data
       /\ (script = "test_script_execution" /\ epc # "start")
            => /\ epc # "exited"
               /\ event_data = extract_jellpy_variables(ArgvUnparsed, environ).data

\* C19: whatever the arguments and the environment, basic_notification.py
\* builds its event record and routes it; it never ends with an error
\* because of the shape of its input.
C19_DecodingNeverFails ==
    script = "basic_notification"
    => /\ epc # "exited"
       /\ status # 1
       /\ epc = "done" => handler # ""

\* The script was started with the arguments and environment of `t`.
Delivered(t) == argv = t.argv /\ environ = t.environ

Transports(e) == {EnvTransport(e), ArgsTransport(e), JsonTransport(e)}

\* What the claim compares: event type, user and item name.
Canonical(d) == <<d["event_type"], d["user_name"], d["item_name"]>>

\* C20: an event delivered through one of the three transports is decoded
\* to the event type, user and item name, and routed to the handler, that
\* the other two transports of the same event give.
C20_TransportInvariance ==
    \A e \in Events : \A t \in Transports(e) :
        (script = "basic_notification" /\ epc = "done" /\ Delivered(t))
        => \A t2 \in Transports(e) :
              LET r == gather_event_data(t2.argv, t2.environ)
              IN  /\ ~r.raised
                  /\ Canonical(r.data) = Canonical(event_data)
                  /\ RoutedHandler(r.data["event_type"]) = handler

\* The step of an episode run a request belongs to: series lookup,
\* internal-id lookup, catalog fetch, unmonitoring, window, future
\* monitoring.
Step(c) ==
    CASE c.op = "get_tvdb_id"   -> 1
      [] c.op = "get_series_id" -> 2
      [] c.op = "get_episodes"  -> 3
      [] c.op = "set_wanted" /\ ~c.wanted -> 4
      [] c.op = "set_wanted" /\ c.wanted  -> 5
      [] c.op = "search_episode" -> 5
      [] c.op = "monitor_future_episodes" -> 6
      [] OTHER -> 0

\* C26: the requests of an episode run are issued one after the other in
\* the order series lookup, internal-id lookup, catalog fetch, unmonitoring
\* of the watched episode, window entries in catalog order (set_wanted(True)
\* before search_episode for each entry), monitor_future_episodes last.
\* The order is stated for every request and the one sent after it; it
\* carries over to every later request.
C26_CallOrder ==
    OnEpisodePath
    => /\ \A a \in DOMAIN calls :
            /\ Step(calls[a]) >= 1
            /\ a <= 3 => Step(calls[a]) = a
       /\ \A a \in DOMAIN calls : a < Len(calls) =>
            LET b == a + 1
            IN  /\ Step(calls[a]) <= Step(calls[b])
                /\ Step(calls[a]) \in {1, 2, 3, 6} => Step(calls[a]) < Step(calls[b])
                /\ (Step(calls[a]) = 5 /\ Step(calls[b]) = 5)
                     => /\ calls[a].id <= calls[b].id
                        /\ calls[a].id = calls[b].id
                             => /\ calls[a].op = "set_wanted"
                                /\ calls[b].op = "search_episode"

\* A finished run that unmonitored the watched episode and then marked
\* wanted and searched two window entries.
C26_Witness ==
    /\ pc = "done"
    /\ OnEpisodePath
    /\ \E a \in DOMAIN calls : Step(calls[a]) = 4
    /\ Cardinality({ a \in DOMAIN calls : calls[a].op = "search_episode" }) = 2
    /\ Cardinality({ a \in DOMAIN calls : Step(calls[a]) = 5 }) = 4

\* C27: with EPISODE_BUFFER = 0 and the watched episode in the catalog, the
\* watched episode is still unmonitored, no window request is sent and
\* monitor_future_episodes is never sent; with EPISODE_BUFFER = 0 and an
\* empty catalog monitor_future_episodes is not sent either.
C27_ZeroBuffer ==
    (pc = "done" /\ OnEpisodePath /\ Fetched /\ p.episode_number # EmptyArg
       /\ EPISODE_BUFFER = 0)
    => /\ WatchedFound
            => /\ Issued("set_wanted", Catalog[WatchedPos].id, FALSE)
               /\ \A j \in DOMAIN calls : ~IsWindowMutation(j)
               /\ MonitorFutureTimes = 0
       /\ Len(Catalog) = 0 => MonitorFutureTimes = 0

\* C28: set_movie_wanted is only sent with an id that a successful movie
\* lookup returned.
C28_NoMovieMutationAfterFailedLookup ==
    \A j \in DOMAIN calls :
        calls[j].op = "set_movie_wanted"
        => /\ calls[j].id # None
           /\ \E a \in 1..(j - 1) : calls[a].op = "get_movie_id" /\ calls[a].ok

\* C29: the section test_execution_mode.py writes to its log is the one of
\* the detected mode: the JSON section for a JSON payload, the environment
\* section for environment mode, the arguments section for arguments mode.
C29_SectionMatchesMode ==
    ModeDetected
    => /\ mode = "JsonPayload" => section = "log_json_mode"
       /\ mode = "Compatibility" => section = "log_env_mode"
       /\ mode = "Command Arguments" => section = "log_args_mode"

\* ------------------------------------------------- notification claims
\* basic_notification.py has handled the event.
Handled == script = "basic_notification" /\ epc = "done"

\* The first argument is a JSON object without the key.
PayloadLacks(key) ==
    /\ argv # <<>>
    /\ argv[1].kind = "object"
    /\ key \notin DOMAIN argv[1].fields

\* C21: when the payload is a JSON object without EventType, the event
\* type basic_notification.py decodes is "Unknown".
C21_MissingEventTypeIsUnknown ==
    (script = "basic_notification" /\ epc \in {"handle_event", "done"}
       /\ PayloadLacks("EventType") /\ PayloadLacks("event_type"))
    => event_data["event_type"] = "Unknown"

\* A send was attempted on the channel.
Attempted(channel) == \E j \in DOMAIN attempts : attempts[j].channel = channel

\* C22: an event whose type has no handler of its own goes through the
\* notification fan-out, which always makes the desktop attempt.
C22_UnknownTypeIsNotified ==
    (Handled /\ event_data["event_type"] \notin
                  {"PlaybackStart", "PlaybackStop", "ItemAdded", "UserCreated"})
    => Attempted("desktop")

\* C23: the episode handler is run exactly for the events of type
\* PlaybackStart whose item type is Episode.
C23_EpisodeReactionOnlyForEpisodePlayback ==
    Handled
    => (reaction = "_handle_episode_playback"
        <=> (event_data["event_type"] = "PlaybackStart"
             /\ event_data["item_type"] = "Episode"))

C23_Witness == Handled /\ reaction = "_handle_episode_playback"

\* The channels the environment configures: the webhook when its URL is
\* set, the mail when the SMTP settings are all set.
WebhookConfigured == "DISCORD_WEBHOOK_URL" \in DOMAIN environ

EmailConfigured ==
    \A name \in {"SMTP_SERVER", "SMTP_USER", "SMTP_PASS", "EMAIL_TO"} :
        name \in DOMAIN environ

\* The event went to a handler that notifies.
Notified ==
    /\ Handled
    /\ handler \in {"_handle_playback_start", "_handle_playback_stop",
                     "_handle_item_added", "_handle_user_created"}

\* C24: in a notification every configured channel is attempted, whatever
\* the outcome of the others, the handler goes on after it and the script
\* ends with status 0.
C24_FanOutIsolation ==
    Notified
    => /\ WebhookConfigured => Attempted("discord")
       /\ EmailConfigured => Attempted("email")
       /\ Attempted("desktop")
       /\ status = 0
       /\ (handler = "_handle_playback_start"
             /\ event_data["item_type"] \in {"Movie", "Episode"})
          => reaction # ""

C24_Witness ==
    /\ Notified
    /\ \E j \in DOMAIN attempts :
          attempts[j].channel = "discord" /\ ~attempts[j].ok
    /\ Attempted("email")
    /\ Attempted("desktop")

\* discord_notification.py has run.
DiscordRan == script = "discord_notification" /\ epc \in {"done", "exited"}

\* The first argument is a JSON object that is an ItemAdded event for an
\* episode.
EpisodeAdded ==
    /\ argv # <<>>
    /\ argv[1].kind = "object"
    /\ "EventType" \in DOMAIN argv[1].fields
    /\ argv[1].fields["EventType"] = "ItemAdded"
    /\ "ItemType" \in DOMAIN argv[1].fields
    /\ argv[1].fields["ItemType"] = "Episode"

\* C25: a channel without configuration is skipped.  basic_notification.py
\* attempts no send on it and ends with status 0; discord_notification.py,
\* given a JSON object that is not an episode addition, attempts no send
\* and does not end with status 1 when the webhook URL is unset.
C25_AbsentConfigurationIsSkipped ==
    /\ Handled
       => /\ ~WebhookConfigured => ~Attempted("discord")
          /\ ~EmailConfigured => ~Attempted("email")
          /\ status = 0
    /\ (DiscordRan /\ ~WebhookConfigured /\ argv # <<>>
          /\ argv[1].kind = "object" /\ ~EpisodeAdded)
       => /\ ~Attempted("discord")
          /\ status # 1

\* C30: for an ItemAdded event of an episode, with or without
\* SeasonNumber and EpisodeNumber, discord_notification.py renders the
\* episode message and attempts the send.
C30_EpisodeRenderingNeverFails ==
    (DiscordRan /\ WebhookConfigured /\ EpisodeAdded)
    => /\ handler = "format_episode_message"
       /\ Attempted("discord")

====
